---- MODULE Spec2Model ----
(***************************************************************************)
(* Model of the emergency state machine of src/README.jsx: the Firestore   *)
(* device document and event collection, the App clients (wearer and       *)
(* caregivers) with their device subscription and AlertOverlay countdown,  *)
(* and the ESP32Simulator panel.                                           *)
(*                                                                         *)
(* A store write (updateDoc / setDoc / addDoc) commits in the step that    *)
(* issues it; the awaits between the writes of one handler are separate    *)
(* steps.  The client that writes sees its own write at once (LocalEcho);  *)
(* every other client learns of a committed device state through its       *)
(* onSnapshot callback (DeviceSnapshot) and may act on a stale status.     *)
(***************************************************************************)
EXTENDS Integers, Sequences, FiniteSets, TLC

\* ------------------------------------------------------------------ bounds
MaxEvents == 2         \* events the log may hold (appended or awaiting addDoc)
MaxCaregiverAdds == 3  \* caregiver documents ever added
MaxDocs == 3           \* documents in a delivered events snapshot

\* ------------------------------------------------------- program constants
CountdownStart == 15
FallHeartRate == 110
ResetHeartRate == 72
ResetSpO2 == 99
HRMin == 60
HRMax == 120
SpO2Min == 90
SpO2Max == 100

Statuses == {"SAFE", "FALL", "SOS", "AMBULANCE"}
EventTypes == {"MANUAL_SOS", "FALL_ESCALATED", "FALSE_ALARM",
               "AMBULANCE_REQUESTED", "EMERGENCY_RESOLVED"}

\* ------------------------------------------------------------ the clients
Clients == {"u1", "u2"}
Roles == {"elderly", "caregiver"}
DeviceIds == {"ESP32-A1B2C3"}
\* clients whose user is authenticated when the behaviour starts (the others
\* stay on the loading screen: user is null)
SignedIn == {"u1"}
\* clients on which the ESP32Simulator panel is operated
SimHosts == {"u1"}
\* random steps drawn by the auto-update interval
HRDeltas == {0}
SpO2Deltas == {1}

\* a document that does not exist (docSnap.exists() is false)
Absent == [exists |-> FALSE]
None == "none"

VARIABLES
    devices,     \* devices collection: device id -> document or Absent
    events,      \* events collection, in commit order
    role,        \* per client: profile.role (None = no profile yet)
    pc,          \* per client: position in onboarding / handlePairDevice
    deviceIdOf,  \* per client: deviceId being paired, then profile.deviceId
    obs,         \* per client: status of the App's `device` state (None = null)
    countdown,   \* per client: AlertOverlay's countdown state
    pend,        \* per client: events whose addDoc awaits the status write
    autoUpdate,  \* per simulator: autoUpdate state
    simVitals,   \* per simulator: vitals state
    caregivers,  \* caregivers collection: set of [id, deviceId, priority]
    cgSeen,      \* per client: the App's `caregivers` state (sorted list)
    cgNext,      \* the document id the next addDoc(caregivers) gets
    eventDocs,   \* docs of an events snapshot, in the order delivered
    history      \* per client: the App's `events` state (event history)

\* the read-side views and the roster, which no alert handler reads
sideVars == <<caregivers, cgSeen, cgNext, eventDocs, history>>

vars == <<devices, events, role, pc, deviceIdOf, obs, countdown, pend,
          autoUpdate, simVitals, caregivers, cgSeen, cgNext, eventDocs,
          history>>

BaselineVitals == [heartRate |-> 75, spo2 |-> 98, battery |-> 100]
SimInitVitals == [heartRate |-> 75, spo2 |-> 98, battery |-> 82]

Max(a, b) == IF a > b THEN a ELSE b
Min(a, b) == IF a < b THEN a ELSE b

\* the overlay is rendered iff device && status is FALL, SOS or AMBULANCE
OverlayMounted(s) == s \in {"FALL", "SOS", "AMBULANCE"}

Init ==
    /\ devices = [d \in DeviceIds |-> Absent]
    /\ events = << >>
    /\ role = [c \in Clients |-> None]
    /\ pc = [c \in Clients |-> IF c \in SignedIn THEN "onboarding"
                                               ELSE "signed_out"]
    /\ deviceIdOf = [c \in Clients |-> None]
    /\ obs = [c \in Clients |-> None]
    /\ countdown = [c \in Clients |-> CountdownStart]
    /\ pend = [c \in Clients |-> << >>]
    /\ autoUpdate = [h \in SimHosts |-> FALSE]
    /\ simVitals = [h \in SimHosts |-> SimInitVitals]
    /\ caregivers = {}
    /\ cgSeen = [c \in Clients |-> << >>]
    /\ cgNext = 1
    /\ eventDocs = << >>
    /\ history = [c \in Clients |-> << >>]

\* ------------------------------------------------------------ server time
\* serverTimestamp() resolves to the commit time.  Time is logical: it
\* advances with every event append, and a device write falls strictly
\* between the appends around it.
EventTime == 2 * (Len(events) + 1)
DeviceTime == 2 * Len(events) + 1

\* ------------------------------------------------------ device subscription
\* a countdown that is never initialised again
CountdownAfterKeep(old, new, cd) == cd

\* useState(15) of AlertOverlay: a state kept while the overlay stays
\* mounted and initialised again when it is mounted anew
CountdownAfter(old, new, cd) ==
    IF OverlayMounted(old) /\ OverlayMounted(new) THEN cd ELSE CountdownStart

\* the device listener of the client that wrote fires at once with the
\* written status (local echo of the SDK); cd is the countdown the handler
\* leaves.  The optimistic view of a rejected write is not modelled.
LocalEcho(c, s, committed, cd) ==
    /\ obs' = IF committed THEN [obs EXCEPT ![c] = s] ELSE obs
    /\ countdown' = [countdown EXCEPT ![c] =
                       IF committed THEN CountdownAfter(obs[c], s, cd) ELSE cd]

\* ------------------------------------------------------------ store writes
\* updateDoc(deviceRef, fields): fails when the store rejects it or the
\* document does not exist
UpdateCommits(d, ok) == ok /\ devices[d] # Absent

\* a status write that never overwrites a committed AMBULANCE
UpdateStatusKeepsAmbulance(d, s, ok) ==
    IF UpdateCommits(d, ok) /\ devices[d].status # "AMBULANCE"
    THEN devices' = [devices EXCEPT ![d] =
                       [@ EXCEPT !.status = s, !.lastUpdate = DeviceTime]]
    ELSE UNCHANGED devices

UpdateStatus(d, s, ok) ==
    IF UpdateCommits(d, ok)
    THEN devices' = [devices EXCEPT ![d] =
                       [@ EXCEPT !.status = s, !.lastUpdate = DeviceTime]]
    ELSE UNCHANGED devices

Draft(d, type, st, req, res) ==
    [deviceId |-> d, type |-> type, status |-> st,
     requestedBy |-> req, resolvedBy |-> res]

\* a handler that issues its addDoc without writing the status
EventWithoutStatus(c, s, draft, ok, cd) ==
    /\ UNCHANGED devices
    /\ LocalEcho(c, s, FALSE, cd)
    /\ pend' = [pend EXCEPT ![c] = Append(@, draft)]

\* a handler that issues its addDoc whether or not the status write failed
StatusThenEventAnyway(c, s, draft, ok, cd) ==
    /\ UpdateStatus(deviceIdOf[c], s, ok)
    /\ LocalEcho(c, s, UpdateCommits(deviceIdOf[c], ok), cd)
    /\ pend' = [pend EXCEPT ![c] = Append(@, draft)]

\* `await updateDoc(status)` followed, once it resolves, by the handler's
\* addDoc; a rejected updateDoc throws and the addDoc is never issued
StatusThenEvent(c, s, draft, ok, cd) ==
    /\ UpdateStatus(deviceIdOf[c], s, ok)
    /\ LocalEcho(c, s, UpdateCommits(deviceIdOf[c], ok), cd)
    /\ pend' = IF UpdateCommits(deviceIdOf[c], ok)
               THEN [pend EXCEPT ![c] = Append(@, draft)]
               ELSE pend

RECURSIVE PendingCount(_)
PendingCount(S) ==
    IF S = {} THEN 0
    ELSE LET c == CHOOSE x \in S : TRUE
         IN Len(pend[c]) + PendingCount(S \ {c})

\* room in the explored log for one more event
CanLog == Len(events) + PendingCount(Clients) < MaxEvents

\* ----------------------------------------------------- onboarding, pairing
handleRegisterProfile(c, r, ok) ==
    /\ pc[c] = "onboarding"
    /\ IF ok
       THEN /\ role' = [role EXCEPT ![c] = r]
            /\ pc' = [pc EXCEPT ![c] = "unpaired"]
       ELSE UNCHANGED <<role, pc>>
    /\ UNCHANGED <<devices, events, deviceIdOf, obs, countdown, pend,
                   autoUpdate, simVitals>>
    /\ UNCHANGED sideVars

\* getDoc(deviceRef)
PairRead(c, d) ==
    /\ pc[c] = "unpaired"
    /\ pc' = [pc EXCEPT ![c] = IF devices[d] = Absent THEN "pair_absent"
                                                      ELSE "pair_present"]
    /\ deviceIdOf' = [deviceIdOf EXCEPT ![c] = d]
    /\ UNCHANGED <<devices, events, role, obs, countdown, pend, autoUpdate,
                   simVitals>>
    /\ UNCHANGED sideVars

\* a new device that starts with the simulator's vitals
NewDeviceSimVitals(c) ==
    [status |-> "SAFE", vitals |-> SimInitVitals, lastUpdate |-> DeviceTime,
     pairedElderly |-> IF role[c] = "elderly" THEN c ELSE None]

NewDevice(c) ==
    [status |-> "SAFE", vitals |-> BaselineVitals, lastUpdate |-> DeviceTime,
     pairedElderly |-> IF role[c] = "elderly" THEN c ELSE None]

PairFailed(c) ==
    /\ pc' = [pc EXCEPT ![c] = "unpaired"]
    /\ deviceIdOf' = [deviceIdOf EXCEPT ![c] = None]
    /\ UNCHANGED devices

\* setDoc of a new device when the read found none, updateDoc of
\* pairedElderly when it found one and the user is the wearer
PairWrite(c, ok) ==
    /\ pc[c] \in {"pair_absent", "pair_present"}
    /\ LET d == deviceIdOf[c] IN
       IF pc[c] = "pair_absent"
       THEN IF ok
            THEN /\ devices' = [devices EXCEPT ![d] = NewDevice(c)]
                 /\ pc' = [pc EXCEPT ![c] = "pair_profile"]
                 /\ UNCHANGED deviceIdOf
            ELSE PairFailed(c)
       ELSE IF role[c] = "elderly"
            THEN IF UpdateCommits(d, ok)
                 THEN /\ devices' = [devices EXCEPT ![d].pairedElderly = c]
                      /\ pc' = [pc EXCEPT ![c] = "pair_profile"]
                      /\ UNCHANGED deviceIdOf
                 ELSE PairFailed(c)
            ELSE /\ pc' = [pc EXCEPT ![c] = "pair_profile"]
                 /\ UNCHANGED <<devices, deviceIdOf>>
    /\ UNCHANGED <<events, role, obs, countdown, pend, autoUpdate, simVitals>>
    /\ UNCHANGED sideVars

\* updateDoc(users/uid, {deviceId}); the profile snapshot then starts the
\* device subscription
PairProfile(c, ok) ==
    /\ pc[c] = "pair_profile"
    /\ IF ok
       THEN /\ pc' = [pc EXCEPT ![c] = "paired"]
            /\ UNCHANGED deviceIdOf
       ELSE /\ pc' = [pc EXCEPT ![c] = "unpaired"]
            /\ deviceIdOf' = [deviceIdOf EXCEPT ![c] = None]
    /\ UNCHANGED <<devices, events, role, obs, countdown, pend, autoUpdate,
                   simVitals>>
    /\ UNCHANGED sideVars

\* onSnapshot(deviceRef): setDevice with the committed document
DeviceSnapshot(c) ==
    /\ pc[c] = "paired"
    /\ devices[deviceIdOf[c]] # Absent
    /\ LET s == devices[deviceIdOf[c]].status IN
       /\ obs[c] # s
       /\ obs' = [obs EXCEPT ![c] = s]
       /\ countdown' = [countdown EXCEPT ![c] = CountdownAfter(obs[c], s, @)]
    /\ UNCHANGED <<devices, events, role, pc, deviceIdOf, pend, autoUpdate,
                   simVitals>>
    /\ UNCHANGED sideVars

\* ------------------------------------------------------------- AlertOverlay
\* an escalation that writes the status and logs nothing
escalateToSOSUnlogged(c, ok, cd) ==
    /\ UpdateStatus(deviceIdOf[c], "SOS", ok)
    /\ LocalEcho(c, "SOS", UpdateCommits(deviceIdOf[c], ok), cd)
    /\ UNCHANGED pend

escalateToSOS(c, ok, cd) ==
    StatusThenEvent(c, "SOS",
        Draft(deviceIdOf[c], "FALL_ESCALATED", "ACTIVE", None, None), ok, cd)

\* an interval that is also set when the countdown has run out
TimerRunningAtZero(c) == pc[c] = "paired" /\ obs[c] = "FALL"

\* an interval that is set whenever the overlay is shown
TimerRunningAnyAlert(c) ==
    pc[c] = "paired" /\ OverlayMounted(obs[c]) /\ countdown[c] > 0

\* the interval is set only while isFall && countdown > 0
TimerRunning(c) == pc[c] = "paired" /\ obs[c] = "FALL" /\ countdown[c] > 0

\* one firing of the interval callback
Tick(c, ok) ==
    /\ TimerRunning(c)
    /\ IF countdown[c] <= 1
       THEN /\ CanLog
            /\ escalateToSOS(c, ok, 0)
       ELSE /\ ok
            /\ countdown' = [countdown EXCEPT ![c] = @ - 1]
            /\ UNCHANGED <<devices, pend, obs>>
    /\ UNCHANGED <<events, role, pc, deviceIdOf, autoUpdate, simVitals>>
    /\ UNCHANGED sideVars

\* a cancel button rendered for every role
CancelShownAnyRole(c) == pc[c] = "paired" /\ obs[c] = "FALL"

\* the buttons the overlay renders for the observed status and the role
CancelShown(c) == pc[c] = "paired" /\ obs[c] = "FALL" /\ role[c] = "elderly"
\* an ambulance button rendered for every role
AmbulanceShownAnyRole(c) == pc[c] = "paired" /\ obs[c] \in {"FALL", "SOS"}

AmbulanceShown(c) ==
    pc[c] = "paired" /\ obs[c] \in {"FALL", "SOS"} /\ role[c] = "caregiver"
ResolveShown(c) == pc[c] = "paired" /\ obs[c] \in {"SOS", "AMBULANCE"}

\* a cancel that logs the event of a resolve
handleCancelFallAsResolve(c, ok) ==
    /\ CancelShown(c)
    /\ CanLog
    /\ StatusThenEvent(c, "SAFE",
          Draft(deviceIdOf[c], "EMERGENCY_RESOLVED", None, None, role[c]), ok,
          countdown[c])
    /\ UNCHANGED <<events, role, pc, deviceIdOf, autoUpdate, simVitals>>
    /\ UNCHANGED sideVars

handleCancelFall(c, ok) ==
    /\ CancelShown(c)
    /\ CanLog
    /\ StatusThenEvent(c, "SAFE",
          Draft(deviceIdOf[c], "FALSE_ALARM", "RESOLVED", None, None), ok,
          countdown[c])
    /\ UNCHANGED <<events, role, pc, deviceIdOf, autoUpdate, simVitals>>
    /\ UNCHANGED sideVars

\* an ambulance request whose event carries no role
handleRequestAmbulanceUntagged(c, ok) ==
    /\ AmbulanceShown(c)
    /\ CanLog
    /\ StatusThenEvent(c, "AMBULANCE",
          Draft(deviceIdOf[c], "AMBULANCE_REQUESTED", "DISPATCHED",
                None, None), ok, countdown[c])
    /\ UNCHANGED <<events, role, pc, deviceIdOf, autoUpdate, simVitals>>
    /\ UNCHANGED sideVars

\* an ambulance request that logs nothing when AMBULANCE is already committed
handleRequestAmbulanceOnce(c, ok) ==
    /\ AmbulanceShown(c)
    /\ CanLog
    /\ IF devices[deviceIdOf[c]].status = "AMBULANCE"
       THEN /\ LocalEcho(c, "AMBULANCE", TRUE, countdown[c])
            /\ UNCHANGED <<devices, pend>>
       ELSE StatusThenEvent(c, "AMBULANCE",
               Draft(deviceIdOf[c], "AMBULANCE_REQUESTED", "DISPATCHED",
                     role[c], None), ok, countdown[c])
    /\ UNCHANGED <<events, role, pc, deviceIdOf, autoUpdate, simVitals>>
    /\ UNCHANGED sideVars

handleRequestAmbulance(c, ok) ==
    /\ AmbulanceShown(c)
    /\ CanLog
    /\ StatusThenEvent(c, "AMBULANCE",
          Draft(deviceIdOf[c], "AMBULANCE_REQUESTED", "DISPATCHED",
                role[c], None), ok, countdown[c])
    /\ UNCHANGED <<events, role, pc, deviceIdOf, autoUpdate, simVitals>>
    /\ UNCHANGED sideVars

handleResolveEmergency(c, ok) ==
    /\ ResolveShown(c)
    /\ CanLog
    /\ StatusThenEvent(c, "SAFE",
          Draft(deviceIdOf[c], "EMERGENCY_RESOLVED", None, None, role[c]), ok,
          countdown[c])
    /\ UNCHANGED <<events, role, pc, deviceIdOf, autoUpdate, simVitals>>
    /\ UNCHANGED sideVars

\* ---------------------------------------------------------- DashboardScreen
\* the SOS button: wearer only, dashboard rendered (device loaded) and not
\* covered by the overlay
SOSButtonShown(c) == pc[c] = "paired" /\ obs[c] = "SAFE" /\ role[c] = "elderly"

ManualSOS(c, ok) ==
    /\ SOSButtonShown(c)
    /\ CanLog
    /\ StatusThenEvent(c, "SOS",
          Draft(deviceIdOf[c], "MANUAL_SOS", "ACTIVE", None, None), ok,
          countdown[c])
    /\ UNCHANGED <<events, role, pc, deviceIdOf, autoUpdate, simVitals>>
    /\ UNCHANGED sideVars

\* ------------------------------------------------------------- event append
\* an append that overwrites the newest event of the log
AppendEventReplacingLast(c, ok) ==
    /\ pend[c] # << >>
    /\ pend' = [pend EXCEPT ![c] = Tail(@)]
    /\ LET e == [deviceId |-> Head(pend[c]).deviceId,
                 type |-> Head(pend[c]).type,
                 timestamp |-> 2 * (Len(events) + 1),
                 status |-> Head(pend[c]).status,
                 requestedBy |-> Head(pend[c]).requestedBy,
                 resolvedBy |-> Head(pend[c]).resolvedBy]
       IN IF ok
          THEN events' = IF events = << >> THEN << e >>
                         ELSE [events EXCEPT ![Len(events)] = e]
          ELSE UNCHANGED events
    /\ UNCHANGED <<devices, role, pc, deviceIdOf, obs, countdown, autoUpdate,
                   simVitals>>
    /\ UNCHANGED sideVars

\* addDoc(events, {...draft, timestamp: serverTimestamp()})
AppendEvent(c, ok) ==
    /\ pend[c] # << >>
    /\ pend' = [pend EXCEPT ![c] = Tail(@)]
    /\ IF ok
       THEN events' = Append(events,
                   [deviceId |-> Head(pend[c]).deviceId,
                    type |-> Head(pend[c]).type,
                    timestamp |-> EventTime,
                    status |-> Head(pend[c]).status,
                    requestedBy |-> Head(pend[c]).requestedBy,
                    resolvedBy |-> Head(pend[c]).resolvedBy])
       ELSE UNCHANGED events
    /\ UNCHANGED <<devices, role, pc, deviceIdOf, obs, countdown, autoUpdate,
                   simVitals>>
    /\ UNCHANGED sideVars

\* ----------------------------------------------------------- ESP32Simulator
\* the panel is rendered once profile.deviceId is set
SimReady(h) == pc[h] = "paired"

\* a vitals sync that takes the status from the observed device only
syncToFirebaseObservedOnly(h, doc, v, forcedStatus) ==
    [doc EXCEPT !.vitals = v, !.status = obs[h], !.lastUpdate = DeviceTime]

\* syncToFirebase(forcedStatus): vitals and status in one updateDoc, the
\* status being forcedStatus || currentDeviceState?.status || 'SAFE'
syncToFirebase(h, doc, v, forcedStatus) ==
    [doc EXCEPT !.vitals = v,
                !.status = IF forcedStatus # None THEN forcedStatus
                           ELSE IF obs[h] # None THEN obs[h] ELSE "SAFE",
                !.lastUpdate = DeviceTime]

triggerFall(h, ok) ==
    /\ SimReady(h)
    /\ autoUpdate' = [autoUpdate EXCEPT ![h] = FALSE]
    /\ LET fallVitals == [simVitals[h] EXCEPT !.heartRate = FallHeartRate]
           d == deviceIdOf[h]
       IN /\ simVitals' = [simVitals EXCEPT ![h] = fallVitals]
          /\ IF UpdateCommits(d, ok)
             THEN devices' = [devices EXCEPT ![d] =
                        [@ EXCEPT !.vitals = fallVitals, !.status = "FALL",
                                  !.lastUpdate = DeviceTime]]
             ELSE UNCHANGED devices
          /\ LocalEcho(h, "FALL", UpdateCommits(d, ok), countdown[h])
    /\ UNCHANGED <<events, role, pc, deviceIdOf, pend>>
    /\ UNCHANGED sideVars

triggerSOS(h, ok) ==
    /\ SimReady(h)
    /\ autoUpdate' = [autoUpdate EXCEPT ![h] = FALSE]
    /\ UpdateStatus(deviceIdOf[h], "SOS", ok)
    /\ LocalEcho(h, "SOS", UpdateCommits(deviceIdOf[h], ok), countdown[h])
    /\ UNCHANGED <<events, role, pc, deviceIdOf, pend, simVitals>>
    /\ UNCHANGED sideVars

\* resetDevice: its own updateDoc, then the [vitals] effect runs with
\* autoUpdate true and issues syncToFirebase('SAFE') with the reset vitals
resetDevice(h, ok, okSync) ==
    /\ SimReady(h)
    /\ autoUpdate' = [autoUpdate EXCEPT ![h] = TRUE]
    /\ LET v == [heartRate |-> ResetHeartRate, spo2 |-> ResetSpO2,
                 battery |-> simVitals[h].battery]
           d == deviceIdOf[h]
           d1 == IF UpdateCommits(d, ok)
                 THEN [devices[d] EXCEPT !.status = "SAFE",
                                         !.lastUpdate = DeviceTime]
                 ELSE devices[d]
       IN /\ simVitals' = [simVitals EXCEPT ![h] = v]
          /\ devices' = [devices EXCEPT ![d] =
                IF UpdateCommits(d, okSync)
                THEN syncToFirebase(h, d1, v, "SAFE") ELSE d1]
          /\ LocalEcho(h, "SAFE",
                UpdateCommits(d, ok) \/ UpdateCommits(d, okSync), countdown[h])
    /\ UNCHANGED <<events, role, pc, deviceIdOf, pend>>
    /\ UNCHANGED sideVars

ToggleAutoUpdate(h) ==
    /\ SimReady(h)
    /\ autoUpdate' = [autoUpdate EXCEPT ![h] = ~@]
    /\ UNCHANGED <<devices, events, role, pc, deviceIdOf, obs, countdown,
                   pend, simVitals>>
    /\ UNCHANGED sideVars

\* the 3 s interval: a random step of the vitals, then the [vitals] effect
\* calls syncToFirebase('SAFE')
AutoUpdateTick(h, dHR, dSp, ok) ==
    /\ SimReady(h)
    /\ autoUpdate[h]
    /\ LET newHR == Max(HRMin, Min(HRMax, simVitals[h].heartRate + dHR))
           newSpO2 == Max(SpO2Min, Min(SpO2Max, simVitals[h].spo2 + dSp))
           v == [simVitals[h] EXCEPT !.heartRate = newHR, !.spo2 = newSpO2]
           d == deviceIdOf[h]
       IN /\ simVitals' = [simVitals EXCEPT ![h] = v]
          /\ IF UpdateCommits(d, ok)
             THEN devices' = [devices EXCEPT ![d] =
                                syncToFirebase(h, devices[d], v, "SAFE")]
             ELSE UNCHANGED devices
          /\ LocalEcho(h, "SAFE", UpdateCommits(d, ok), countdown[h])
    /\ UNCHANGED <<events, role, pc, deviceIdOf, pend, autoUpdate>>
    /\ UNCHANGED sideVars

\* ---------------------------------------------------------------- next-state
Next ==
    \/ \E c \in Clients, r \in Roles, ok \in BOOLEAN :
          handleRegisterProfile(c, r, ok)
    \/ \E c \in Clients, d \in DeviceIds : PairRead(c, d)
    \/ \E c \in Clients, ok \in BOOLEAN : PairWrite(c, ok)
    \/ \E c \in Clients, ok \in BOOLEAN : PairProfile(c, ok)
    \/ \E c \in Clients : DeviceSnapshot(c)
    \/ \E c \in Clients, ok \in BOOLEAN : Tick(c, ok)
    \/ \E c \in Clients, ok \in BOOLEAN : handleCancelFall(c, ok)
    \/ \E c \in Clients, ok \in BOOLEAN : handleRequestAmbulance(c, ok)
    \/ \E c \in Clients, ok \in BOOLEAN : handleResolveEmergency(c, ok)
    \/ \E c \in Clients, ok \in BOOLEAN : ManualSOS(c, ok)
    \/ \E c \in Clients, ok \in BOOLEAN : AppendEvent(c, ok)
    \/ \E h \in SimHosts, ok \in BOOLEAN : triggerFall(h, ok)
    \/ \E h \in SimHosts, ok \in BOOLEAN : triggerSOS(h, ok)
    \/ \E h \in SimHosts, ok, okSync \in BOOLEAN : resetDevice(h, ok, okSync)
    \/ \E h \in SimHosts : ToggleAutoUpdate(h)
    \/ \E h \in SimHosts, dHR \in HRDeltas, dSp \in SpO2Deltas,
          ok \in BOOLEAN : AutoUpdateTick(h, dHR, dSp, ok)

Spec == Init /\ [][Next]_vars

\* ------------------------------------------------------------ fair variants
\* snapshots are delivered, running intervals fire, issued addDocs complete
FairSpec ==
    /\ Init /\ [][Next]_vars
    /\ \A c \in Clients : WF_vars(DeviceSnapshot(c))
    /\ \A c \in Clients : WF_vars(\E ok \in BOOLEAN : Tick(c, ok))
    /\ \A c \in Clients : WF_vars(\E ok \in BOOLEAN : AppendEvent(c, ok))

\* the same program when no store operation is ever rejected
NextOK ==
    \/ \E c \in Clients, r \in Roles : handleRegisterProfile(c, r, TRUE)
    \/ \E c \in Clients, d \in DeviceIds : PairRead(c, d)
    \/ \E c \in Clients : PairWrite(c, TRUE)
    \/ \E c \in Clients : PairProfile(c, TRUE)
    \/ \E c \in Clients : DeviceSnapshot(c)
    \/ \E c \in Clients : Tick(c, TRUE)
    \/ \E c \in Clients : handleCancelFall(c, TRUE)
    \/ \E c \in Clients : handleRequestAmbulance(c, TRUE)
    \/ \E c \in Clients : handleResolveEmergency(c, TRUE)
    \/ \E c \in Clients : ManualSOS(c, TRUE)
    \/ \E c \in Clients : AppendEvent(c, TRUE)
    \/ \E h \in SimHosts : triggerFall(h, TRUE)
    \/ \E h \in SimHosts : triggerSOS(h, TRUE)
    \/ \E h \in SimHosts : resetDevice(h, TRUE, TRUE)
    \/ \E h \in SimHosts : ToggleAutoUpdate(h)
    \/ \E h \in SimHosts, dHR \in HRDeltas, dSp \in SpO2Deltas :
          AutoUpdateTick(h, dHR, dSp, TRUE)

SystemStepOK ==
    \/ \E c \in Clients : DeviceSnapshot(c)
    \/ \E c \in Clients : Tick(c, TRUE)
    \/ \E c \in Clients : AppendEvent(c, TRUE)

FairSpecOK ==
    /\ Init /\ [][NextOK]_vars
    /\ \A c \in Clients : WF_vars(DeviceSnapshot(c))
    /\ \A c \in Clients : WF_vars(Tick(c, TRUE))
    /\ \A c \in Clients : WF_vars(AppendEvent(c, TRUE))

\* ------------------------------------------------- two clients on one alert
\* Both clients are paired with the device and their listeners have delivered
\* its status, an alert raised by the hardware (FALL or SOS) that no client
\* has acted on yet; u2 is a caregiver, u1 a wearer or a second caregiver.
PairedRoles == {[u1 |-> "elderly", u2 |-> "caregiver"],
                [u1 |-> "caregiver", u2 |-> "caregiver"]}
AlertStatuses == {"FALL", "SOS"}

PairedInit ==
    \E d \in DeviceIds, s \in AlertStatuses, rs \in PairedRoles :
        /\ events = << >>
        /\ role = rs
        /\ devices = [x \in DeviceIds |->
              IF x = d
              THEN [status |-> s, vitals |-> BaselineVitals,
                    lastUpdate |-> DeviceTime,
                    pairedElderly |-> IF rs["u1"] = "elderly" THEN "u1"
                                                              ELSE None]
              ELSE Absent]
        /\ pc = [c \in Clients |-> "paired"]
        /\ deviceIdOf = [c \in Clients |-> d]
        /\ obs = [c \in Clients |-> s]
        /\ countdown = [c \in Clients |-> CountdownStart]
        /\ pend = [c \in Clients |-> << >>]
        /\ autoUpdate = [h \in SimHosts |-> FALSE]
        /\ simVitals = [h \in SimHosts |-> SimInitVitals]
        /\ caregivers = {}
        /\ cgSeen = [c \in Clients |-> << >>]
        /\ cgNext = 1
        /\ eventDocs = << >>
        /\ history = [c \in Clients |-> << >>]

\* the app's handlers, listeners and timers; no store operation is rejected
PairedNext ==
    \/ \E c \in Clients : DeviceSnapshot(c)
    \/ \E c \in Clients : Tick(c, TRUE)
    \/ \E c \in Clients : handleCancelFall(c, TRUE)
    \/ \E c \in Clients : handleRequestAmbulance(c, TRUE)
    \/ \E c \in Clients : handleResolveEmergency(c, TRUE)
    \/ \E c \in Clients : ManualSOS(c, TRUE)
    \/ \E c \in Clients : AppendEvent(c, TRUE)

PairedSpec == PairedInit /\ [][PairedNext]_vars

\* ------------------------------------------------------- caregiver roster
\* myCaregivers: the documents of the device, sorted by priority ascending
\* (documents of equal priority in snapshot order, here by id)
RECURSIVE SortedByPriority(_)
SortedByPriority(S) ==
    IF S = {} THEN << >>
    ELSE LET m == CHOOSE x \in S : \A y \in S :
                     \/ x.priority < y.priority
                     \/ x.priority = y.priority /\ x.id <= y.id
         IN << m >> \o SortedByPriority(S \ {m})

myCaregivers(docs, d) == SortedByPriority({x \in docs : x.deviceId = d})

\* the add and remove buttons are rendered for the wearer only
RosterEditable(c) == pc[c] = "paired" /\ role[c] = "elderly"

\* handleAdd: addDoc with priority caregivers.length + 1 of the list the
\* client holds; the client's own listener fires with the new document
handleAdd(c) ==
    /\ RosterEditable(c)
    /\ cgNext <= MaxCaregiverAdds
    /\ caregivers' = caregivers \cup
          {[id |-> cgNext, deviceId |-> deviceIdOf[c],
            priority |-> Len(cgSeen[c]) + 1]}
    /\ cgNext' = cgNext + 1
    /\ cgSeen' = [cgSeen EXCEPT ![c] = myCaregivers(caregivers', deviceIdOf[c])]
    /\ UNCHANGED <<devices, events, role, pc, deviceIdOf, obs, countdown, pend,
                   autoUpdate, simVitals, eventDocs, history>>

\* handleRemove(id): deleteDoc of a document of the list the client holds
handleRemove(c, i) ==
    /\ RosterEditable(c)
    /\ i \in DOMAIN cgSeen[c]
    /\ caregivers' = {x \in caregivers : x.id # cgSeen[c][i].id}
    /\ cgSeen' = [cgSeen EXCEPT ![c] = myCaregivers(caregivers', deviceIdOf[c])]
    /\ UNCHANGED <<devices, events, role, pc, deviceIdOf, obs, countdown, pend,
                   autoUpdate, simVitals, cgNext, eventDocs, history>>

\* onSnapshot(caregiversRef): setCaregivers(myCaregivers)
CaregiversSnapshot(c) ==
    /\ pc[c] = "paired"
    /\ cgSeen[c] # myCaregivers(caregivers, deviceIdOf[c])
    /\ cgSeen' = [cgSeen EXCEPT ![c] = myCaregivers(caregivers, deviceIdOf[c])]
    /\ UNCHANGED <<devices, events, role, pc, deviceIdOf, obs, countdown, pend,
                   autoUpdate, simVitals, caregivers, cgNext, eventDocs,
                   history>>

\* one or two wearer clients paired with a SAFE device, no caregiver yet
RosterRoles == {[u1 |-> "elderly", u2 |-> "caregiver"],
                [u1 |-> "elderly", u2 |-> "elderly"]}

RosterInit ==
    \E d \in DeviceIds, rs \in RosterRoles :
        /\ events = << >>
        /\ role = rs
        /\ devices = [x \in DeviceIds |->
              IF x = d
              THEN [status |-> "SAFE", vitals |-> BaselineVitals,
                    lastUpdate |-> DeviceTime, pairedElderly |-> "u1"]
              ELSE Absent]
        /\ pc = [c \in Clients |-> "paired"]
        /\ deviceIdOf = [c \in Clients |-> d]
        /\ obs = [c \in Clients |-> "SAFE"]
        /\ countdown = [c \in Clients |-> CountdownStart]
        /\ pend = [c \in Clients |-> << >>]
        /\ autoUpdate = [h \in SimHosts |-> FALSE]
        /\ simVitals = [h \in SimHosts |-> SimInitVitals]
        /\ caregivers = {}
        /\ cgSeen = [c \in Clients |-> << >>]
        /\ cgNext = 1
        /\ eventDocs = << >>
        /\ history = [c \in Clients |-> << >>]

RosterNext ==
    \/ \E c \in Clients : handleAdd(c)
    \/ \E c \in Clients, i \in 1..MaxCaregiverAdds : handleRemove(c, i)
    \/ \E c \in Clients : CaregiversSnapshot(c)

RosterSpec == RosterInit /\ [][RosterNext]_vars

\* ------------------------------------------------- two clients that pair
\* Both users have registered and are on the pairing screen; the device
\* does not exist yet.  u1 hosts the simulator once it is paired.
PairingInit ==
    \E r1, r2 \in Roles :
        /\ devices = [d \in DeviceIds |-> Absent]
        /\ events = << >>
        /\ role = [u1 |-> r1, u2 |-> r2]
        /\ pc = [c \in Clients |-> "unpaired"]
        /\ deviceIdOf = [c \in Clients |-> None]
        /\ obs = [c \in Clients |-> None]
        /\ countdown = [c \in Clients |-> CountdownStart]
        /\ pend = [c \in Clients |-> << >>]
        /\ autoUpdate = [h \in SimHosts |-> FALSE]
        /\ simVitals = [h \in SimHosts |-> SimInitVitals]
        /\ caregivers = {}
        /\ cgSeen = [c \in Clients |-> << >>]
        /\ cgNext = 1
        /\ eventDocs = << >>
        /\ history = [c \in Clients |-> << >>]

PairingNext ==
    \/ \E c \in Clients, d \in DeviceIds : PairRead(c, d)
    \/ \E c \in Clients, ok \in BOOLEAN : PairWrite(c, ok)
    \/ \E c \in Clients, ok \in BOOLEAN : PairProfile(c, ok)
    \/ \E c \in Clients : DeviceSnapshot(c)
    \/ \E h \in SimHosts, ok \in BOOLEAN : triggerFall(h, ok)
    \/ \E h \in SimHosts, ok \in BOOLEAN : triggerSOS(h, ok)
    \/ \E h \in SimHosts, ok, okSync \in BOOLEAN : resetDevice(h, ok, okSync)

PairingSpec == PairingInit /\ [][PairingNext]_vars

\* ------------------------------------------------------------ event history
\* a serverTimestamp() the server has not resolved yet reads as null
NullTime == -1
\* timestamp?.toMillis?.() || 0
toMillis(t) == IF t = NullTime THEN 0 ELSE t

\* e put into a list sorted descending, behind the entries that are not
\* smaller (Array.prototype.sort is stable)
RECURSIVE InsertDesc(_, _)
InsertDesc(e, seq) ==
    IF seq = << >> THEN << e >>
    ELSE IF toMillis(Head(seq).timestamp) >= toMillis(e.timestamp)
         THEN << Head(seq) >> \o InsertDesc(e, Tail(seq))
         ELSE << e >> \o seq

\* a sort that puts the oldest first
RECURSIVE SortAsc(_)
SortAsc(seq) ==
    IF seq = << >> THEN << >>
    ELSE LET rest == SortAsc(Tail(seq))
             older == SelectSeq(rest, LAMBDA x :
                        toMillis(x.timestamp) < toMillis(Head(seq).timestamp))
             others == SelectSeq(rest, LAMBDA x :
                        toMillis(x.timestamp) >= toMillis(Head(seq).timestamp))
         IN older \o << Head(seq) >> \o others

\* .sort((a, b) => millis(b) - millis(a))
RECURSIVE SortDesc(_)
SortDesc(seq) ==
    IF seq = << >> THEN << >>
    ELSE InsertDesc(seq[Len(seq)], SortDesc(SubSeq(seq, 1, Len(seq) - 1)))

\* myEvents: filter on the device id, then sort
myEvents(docs, d) == SortDesc(SelectSeq(docs, LAMBDA e : e.deviceId = d))

\* onSnapshot(eventsRef): setEvents(myEvents)
EventsSnapshot(c) ==
    /\ pc[c] = "paired"
    /\ history' = [history EXCEPT ![c] = myEvents(eventDocs, deviceIdOf[c])]
    /\ UNCHANGED <<devices, events, role, pc, deviceIdOf, obs, countdown, pend,
                   autoUpdate, simVitals, caregivers, cgSeen, cgNext,
                   eventDocs>>

\* the events collection is shared by all devices
EventDeviceIds == DeviceIds \cup {"ESP32-D4E5F6"}
EventTimes == {NullTime, 1, 2}

\* two paired clients and an events snapshot of up to MaxDocs documents, in
\* document order, of any device and with resolved or unresolved timestamps
HistoryInit ==
    \E d \in DeviceIds, n \in 0..MaxDocs :
      \E f \in [1..n -> EventDeviceIds \X EventTimes] :
        /\ eventDocs = [i \in 1..n |->
              [id |-> i, deviceId |-> f[i][1], timestamp |-> f[i][2]]]
        /\ events = << >>
        /\ role = [u1 |-> "elderly", u2 |-> "caregiver"]
        /\ devices = [x \in DeviceIds |->
              IF x = d
              THEN [status |-> "SAFE", vitals |-> BaselineVitals,
                    lastUpdate |-> DeviceTime, pairedElderly |-> "u1"]
              ELSE Absent]
        /\ pc = [c \in Clients |-> "paired"]
        /\ deviceIdOf = [c \in Clients |-> d]
        /\ obs = [c \in Clients |-> "SAFE"]
        /\ countdown = [c \in Clients |-> CountdownStart]
        /\ pend = [c \in Clients |-> << >>]
        /\ autoUpdate = [h \in SimHosts |-> FALSE]
        /\ simVitals = [h \in SimHosts |-> SimInitVitals]
        /\ caregivers = {}
        /\ cgSeen = [c \in Clients |-> << >>]
        /\ cgNext = 1
        /\ history = [c \in Clients |-> << >>]

HistoryNext == \E c \in Clients : EventsSnapshot(c)

HistorySpec == HistoryInit /\ [][HistoryNext]_vars

\* ------------------------------------------------------------------ helpers
Exists(d) == devices[d] # Absent
StatusOf(d) == devices[d].status
\* the committed status of d changes from s to t in this step
Changes(d, s, t) ==
    /\ Exists(d) /\ devices'[d] # Absent
    /\ StatusOf(d) = s /\ devices'[d].status = t
Subscribed(c, d) == pc[c] = "paired" /\ deviceIdOf[c] = d
EscalationDraft(c) ==
    Draft(deviceIdOf[c], "FALL_ESCALATED", "ACTIVE", None, None)
\* client c's escalation write commits in this step
EscalationCommits(c) ==
    /\ pend'[c] = Append(pend[c], EscalationDraft(c))
    /\ devices'[deviceIdOf[c]].status = "SOS"

\* events of type t in a sequence of events or drafts
CountIn(seq, t) == Cardinality({i \in DOMAIN seq : seq[i].type = t})
RECURSIVE PendingOfType(_, _)
PendingOfType(S, t) ==
    IF S = {} THEN 0
    ELSE LET c == CHOOSE x \in S : TRUE
         IN CountIn(pend[c], t) + PendingOfType(S \ {c}, t)
\* events of type t that handlers have produced: appended or awaiting addDoc
Logged(t) == CountIn(events, t) + PendingOfType(Clients, t)
LoggedTotal == Len(events) + PendingCount(Clients)

\* ---------------------------------------------------------------- C1
\* C1: in every reachable state the committed status of every existing
\* device is one of SAFE, FALL, SOS, AMBULANCE.
C1_StatusInVocabulary ==
    \A d \in DeviceIds : Exists(d) => StatusOf(d) \in Statuses

\* an ambulance was requested and logged on a device whose vitals the
\* simulator has written and whose fall a client counted down on
C1_Witness ==
    \E d \in DeviceIds, c \in Clients :
        /\ Exists(d) /\ StatusOf(d) = "AMBULANCE"
        /\ devices[d].vitals.heartRate = FallHeartRate
        /\ Subscribed(c, d) /\ countdown[c] < CountdownStart
        /\ \E i \in DOMAIN events : events[i].type = "AMBULANCE_REQUESTED"

\* ---------------------------------------------------------------- C2
LegalTransitions ==
    { <<"SAFE", "FALL">>, <<"SAFE", "SOS">>, <<"FALL", "SOS">>,
      <<"FALL", "SAFE">>, <<"FALL", "AMBULANCE">>, <<"SOS", "AMBULANCE">>,
      <<"SOS", "SAFE">>, <<"AMBULANCE", "SAFE">> }

\* C2: every change of a device's committed status is a row of the
\* transition table.
C2_OnlyTableTransitions ==
    [][\A d \in DeviceIds, s, t \in Statuses :
          (s # t /\ Changes(d, s, t)) => <<s, t>> \in LegalTransitions]_vars

\* ---------------------------------------------------------------- C3
\* C3: the committed status goes from FALL to SAFE only by a cancel action
\* of a wearer-role client.
C3_FallToSafeOnlyByWearerCancel ==
    [][\A d \in DeviceIds :
          Changes(d, "FALL", "SAFE") =>
              \E c \in Clients : /\ role[c] = "elderly"
                                 /\ deviceIdOf[c] = d
                                 /\ handleCancelFall(c, TRUE)]_vars

\* ---------------------------------------------------------------- C4
\* C4: when the committed status becomes SAFE after FALL, the log already
\* holds a FALSE_ALARM or EMERGENCY_RESOLVED event of the device whose
\* timestamp is at most the device's lastUpdate of that write.
C4_ExplainingEventNotLater ==
    [][\A d \in DeviceIds :
          Changes(d, "FALL", "SAFE") =>
              \E i \in DOMAIN events' :
                  /\ events'[i].deviceId = d
                  /\ events'[i].type \in {"FALSE_ALARM", "EMERGENCY_RESOLVED"}
                  /\ events'[i].timestamp <= devices'[d].lastUpdate]_vars

\* ---------------------------------------------------------------- C5
\* C5: a committed status write of an app handler (manual SOS, escalation,
\* cancel, ambulance request, resolve) is eventually followed by the append
\* of its event: while such an event awaits its append, the log eventually
\* grows.
C5_TransitionEventuallyLogged ==
    \A n \in 0..MaxEvents :
        ((Len(events) = n /\ \E c \in Clients : pend[c] # << >>)
            ~> (Len(events) > n))

\* ---------------------------------------------------------------- C6
\* C6: a vitals sync of the simulator leaves the committed status as it was.
C6_VitalsSyncKeepsStatus ==
    [][(\E h \in SimHosts, dHR \in HRDeltas, dSp \in SpO2Deltas,
           ok \in BOOLEAN : AutoUpdateTick(h, dHR, dSp, ok))
          => \A d \in DeviceIds :
                 Exists(d) => devices'[d].status = StatusOf(d)]_vars

\* ---------------------------------------------------------------- C7
\* C7: whenever a client's observed status changes to FALL, from whatever
\* it observed before, its countdown starts at the full 15.
C7_FallObservedStartsFullCountdown ==
    [][\A c \in Clients :
          (obs[c] # "FALL" /\ obs'[c] = "FALL")
              => countdown'[c] = CountdownStart]_vars

\* ---------------------------------------------------------------- C8
\* C8: with no store failure and fair ticking, once only snapshots, ticks
\* and appends happen, the status does not stay FALL on a device that has a
\* subscribed client (no expiring timer being held back for want of room in
\* the explored log).
HeldBack(c) == TimerRunning(c) /\ countdown[c] <= 1 /\ ~CanLog

UnacknowledgedFall ==
    \E d \in DeviceIds :
        /\ Exists(d) /\ StatusOf(d) = "FALL"
        /\ \E c \in Clients : Subscribed(c, d)
        /\ \A c \in Clients : ~HeldBack(c)

C8_UnacknowledgedFallEscalates ==
    (<>[][SystemStepOK]_vars) => <>[](~UnacknowledgedFall)

\* ---------------------------------------------------------------- C9
\* C9: the step that brings a client's countdown to zero issues that
\* client's escalation write, and a client whose countdown is zero neither
\* escalates again nor changes the countdown (until the overlay is mounted
\* anew).
C9_EscalatesOnceThenStops ==
    [][\A c \in Clients :
          /\ (countdown[c] > 0 /\ countdown'[c] = 0)
                => \/ EscalationCommits(c)
                   \/ UNCHANGED <<devices, pend>>
          /\ countdown[c] = 0
                => /\ ~EscalationCommits(c)
                   /\ countdown'[c] \in {0, CountdownStart}
                   /\ (countdown'[c] = CountdownStart
                          => ~OverlayMounted(obs'[c]))]_vars

\* a countdown ran out and its escalation write is committed
C9_Witness ==
    \E c \in Clients :
        /\ countdown[c] = 0
        /\ \E i \in DOMAIN pend[c] : pend[c][i].type = "FALL_ESCALATED"
        /\ StatusOf(deviceIdOf[c]) = "SOS"

\* ---------------------------------------------------------------- C10
\* C10: while a client's observed status is not FALL, its countdown is not
\* decremented and it commits no escalation write.
C10_TimerCancelledWhenNotFall ==
    [][\A c \in Clients :
          obs[c] # "FALL"
              => /\ countdown'[c] >= countdown[c]
                 /\ ~(pc[c] = "paired" /\ EscalationCommits(c))]_vars

\* a countdown stopped half way by an observed SOS or AMBULANCE
C10_Witness ==
    \E c \in Clients :
        /\ obs[c] \in {"SOS", "AMBULANCE"}
        /\ countdown[c] > 0 /\ countdown[c] < CountdownStart

\* ---------------------------------------------------------------- C11
\* C11: when two clients count down on the same FALL and nothing but the
\* escalations happens, then once a timer has expired the committed status
\* is SOS and the log holds one FALL_ESCALATED event per expired timer: at
\* least one, two when both expired.
Expired(d) == {c \in Clients : Subscribed(c, d) /\ countdown[c] = 0}

C11_TwoTimersEscalateToSOS ==
    \A d \in DeviceIds :
        (Expired(d) # {} /\ LoggedTotal = Logged("FALL_ESCALATED"))
            => /\ StatusOf(d) = "SOS"
               /\ Logged("FALL_ESCALATED") >= 1
               /\ Logged("FALL_ESCALATED") = Cardinality(Expired(d))

\* both timers expired and both escalations are appended
C11_Witness ==
    \E d \in DeviceIds :
        /\ Expired(d) = Clients
        /\ StatusOf(d) = "SOS"
        /\ Len(events) = 2
        /\ \A i \in DOMAIN events : events[i].type = "FALL_ESCALATED"

\* ---------------------------------------------------------------- C12
\* C12: a caregiver-role client that observes FALL has no cancel action, and
\* no handler of such a client (button or timer) writes status SAFE.
HandlerWrites(c) == Len(pend'[c]) > Len(pend[c])

C12_CaregiverNeverCancels ==
    [][\A c \in Clients :
          (role[c] = "caregiver" /\ obs[c] = "FALL")
              => /\ \A ok \in BOOLEAN : ~handleCancelFall(c, ok)
                 /\ HandlerWrites(c)
                       => devices'[deviceIdOf[c]].status # "SAFE"]_vars

\* a caregiver acted on an observed FALL: its ambulance request is written
C12_Witness ==
    \E c \in Clients :
        /\ role[c] = "caregiver"
        /\ countdown[c] < CountdownStart
        /\ \E i \in DOMAIN pend[c] : pend[c][i].type = "AMBULANCE_REQUESTED"
        /\ StatusOf(deviceIdOf[c]) = "AMBULANCE"

\* ---------------------------------------------------------------- C13
\* C13: a cancel, an ambulance request or a resolve writes the status or
\* issues its event only when the committed status is a From state of its
\* row: FALL for cancel, FALL or SOS for the request, SOS or AMBULANCE for
\* resolve.
Wrote == devices' # devices \/ pend' # pend

C13_WritesOnlyFromRowStatus ==
    [][\A c \in Clients, ok \in BOOLEAN :
          /\ (handleCancelFall(c, ok) /\ Wrote)
                => StatusOf(deviceIdOf[c]) = "FALL"
          /\ (handleRequestAmbulance(c, ok) /\ Wrote)
                => StatusOf(deviceIdOf[c]) \in {"FALL", "SOS"}
          /\ (handleResolveEmergency(c, ok) /\ Wrote)
                => StatusOf(deviceIdOf[c]) \in {"SOS", "AMBULANCE"}]_vars

\* ---------------------------------------------------------------- C14
\* C14: the committed status becomes AMBULANCE only by the ambulance request
\* of a caregiver-role client, every AMBULANCE_REQUESTED event (appended or
\* awaiting its append) carries the role caregiver, and a wearer-role client
\* has no ambulance request.
AmbulanceEventsByCaregiver(seq) ==
    \A i \in DOMAIN seq :
        seq[i].type = "AMBULANCE_REQUESTED" => seq[i].requestedBy = "caregiver"

C14_AmbulanceOnlyByCaregiver ==
    [][/\ \A d \in DeviceIds :
             (/\ Exists(d) /\ StatusOf(d) # "AMBULANCE"
              /\ devices'[d] # Absent /\ devices'[d].status = "AMBULANCE")
                 => \E c \in Clients : /\ role[c] = "caregiver"
                                        /\ deviceIdOf[c] = d
                                        /\ handleRequestAmbulance(c, TRUE)
       /\ AmbulanceEventsByCaregiver(events')
       /\ \A c \in Clients :
             /\ AmbulanceEventsByCaregiver(pend'[c])
             /\ role[c] = "elderly"
                   => \A ok \in BOOLEAN : ~handleRequestAmbulance(c, ok)]_vars

\* a caregiver's request is the last event of the log and the status it set
\* is committed
C14_Witness ==
    \E d \in DeviceIds :
        /\ Exists(d) /\ StatusOf(d) = "AMBULANCE"
        /\ events # << >>
        /\ events[Len(events)].type = "AMBULANCE_REQUESTED"
        /\ events[Len(events)].requestedBy = "caregiver"
        /\ events[Len(events)].deviceId = d

\* ---------------------------------------------------------------- C15
\* C15 (scenario 1): a hardware fall signal on a SAFE device commits FALL;
\* a wearer's cancel while FALL is committed commits SAFE and issues
\* exactly one new event, {FALSE_ALARM, RESOLVED} of the device; the
\* append of that event adds exactly it to the log.
LastOf(seq) == seq[Len(seq)]

C15_FallThenWearerCancel ==
    [][/\ \A h \in SimHosts :
             (/\ SimReady(h) /\ StatusOf(deviceIdOf[h]) = "SAFE"
              /\ triggerFall(h, TRUE))
                => /\ devices'[deviceIdOf[h]].status = "FALL"
                   /\ UNCHANGED <<events, pend>>
       /\ \A c \in Clients :
             (/\ pc[c] = "paired" /\ role[c] = "elderly"
              /\ StatusOf(deviceIdOf[c]) = "FALL"
              /\ handleCancelFall(c, TRUE))
                => /\ devices'[deviceIdOf[c]].status = "SAFE"
                   /\ UNCHANGED events
                   /\ Len(pend'[c]) = Len(pend[c]) + 1
                   /\ \A x \in Clients \ {c} : pend'[x] = pend[x]
                   /\ LastOf(pend'[c]).type = "FALSE_ALARM"
                   /\ LastOf(pend'[c]).status = "RESOLVED"
                   /\ LastOf(pend'[c]).deviceId = deviceIdOf[c]
       /\ \A c \in Clients :
             (AppendEvent(c, TRUE) /\ Head(pend[c]).type = "FALSE_ALARM")
                => /\ Len(events') = Len(events) + 1
                   /\ \A i \in DOMAIN events : events'[i] = events[i]
                   /\ LastOf(events').type = "FALSE_ALARM"
                   /\ LastOf(events').status = "RESOLVED"
                   /\ LastOf(events').deviceId = Head(pend[c]).deviceId]_vars

\* the fall was signalled, the wearer cancelled during the countdown and
\* the one event of the episode is appended
C15_Witness ==
    \E c \in Clients :
        /\ role[c] = "elderly" /\ pc[c] = "paired"
        /\ StatusOf(deviceIdOf[c]) = "SAFE" /\ obs[c] = "SAFE"
        /\ devices[deviceIdOf[c]].vitals.heartRate = FallHeartRate
        /\ Len(events) = 1
        /\ events[1].type = "FALSE_ALARM" /\ events[1].status = "RESOLVED"
        /\ pend[c] = << >>

\* ---------------------------------------------------------------- C16
\* C16 (scenario 2): a client that newly observes FALL has 15 ticks to go;
\* each of the first 14 ticks only takes one off the countdown, and the
\* 15th writes status SOS and issues {FALL_ESCALATED, ACTIVE} of the device.
C16_EscalatesOnFifteenthTick ==
    [][\A c \in Clients :
          /\ (pc[c] = "paired" /\ obs[c] # "FALL" /\ obs'[c] = "FALL")
                => countdown'[c] = CountdownStart
          /\ Tick(c, TRUE)
                => IF countdown[c] = 1
                   THEN /\ devices'[deviceIdOf[c]].status = "SOS"
                        /\ pend'[c] = Append(pend[c], EscalationDraft(c))
                        /\ LastOf(pend'[c]).type = "FALL_ESCALATED"
                        /\ LastOf(pend'[c]).status = "ACTIVE"
                   ELSE /\ countdown'[c] = countdown[c] - 1
                        /\ UNCHANGED <<devices, pend, events>>]_vars

AutomaticStep ==
    \/ \E c \in Clients : DeviceSnapshot(c)
    \/ \E c \in Clients, ok \in BOOLEAN : Tick(c, ok)
    \/ \E c \in Clients, ok \in BOOLEAN : AppendEvent(c, ok)
    \/ \E h \in SimHosts, dHR \in HRDeltas, dSp \in SpO2Deltas,
          ok \in BOOLEAN : AutoUpdateTick(h, dHR, dSp, ok)

C18_ManualSOSBypassesFall ==
    [][/\ \A c \in Clients :
             (/\ pc[c] = "paired" /\ role[c] = "elderly"
              /\ StatusOf(deviceIdOf[c]) = "SAFE"
              /\ ManualSOS(c, TRUE))
                => /\ devices'[deviceIdOf[c]].status = "SOS"
                   /\ pend'[c] = Append(pend[c],
                          Draft(deviceIdOf[c], "MANUAL_SOS", "ACTIVE",
                                None, None))
       /\ \A d \in DeviceIds :
             (/\ Exists(d) /\ StatusOf(d) = "SOS"
              /\ Logged("MANUAL_SOS") > 0
              /\ AutomaticStep)
                => devices'[d].status = "SOS"]_vars

\* ---------------------------------------------------------------- C19
\* C19: with two caregiver clients on an alert, every ambulance request
\* commits AMBULANCE and issues exactly one AMBULANCE_REQUESTED event of its
\* own, and every append adds exactly the event it was issued for; once two
\* requests have been made (and nothing but requests and timer escalations
\* has happened) the committed status is AMBULANCE and two
\* AMBULANCE_REQUESTED events are appended or on their way.
TwoCaregivers == \A c \in Clients : role[c] = "caregiver"

OnlyRequestsAndEscalations ==
    LoggedTotal = Logged("AMBULANCE_REQUESTED") + Logged("FALL_ESCALATED")

BothRequested ==
    /\ TwoCaregivers
    /\ OnlyRequestsAndEscalations
    /\ Logged("AMBULANCE_REQUESTED") = 2

C19_TwoRequestsTwoEvents ==
    [][/\ \A c \in Clients :
             (TwoCaregivers /\ handleRequestAmbulance(c, TRUE))
                => /\ devices'[deviceIdOf[c]].status = "AMBULANCE"
                   /\ Logged("AMBULANCE_REQUESTED")'
                         = Logged("AMBULANCE_REQUESTED") + 1
                   /\ LoggedTotal' = LoggedTotal + 1
                   /\ UNCHANGED events
       /\ \A c \in Clients :
             AppendEvent(c, TRUE)
                => /\ Logged("AMBULANCE_REQUESTED")'
                         = Logged("AMBULANCE_REQUESTED")
                   /\ LoggedTotal' = LoggedTotal
                   /\ Len(events') = Len(events) + 1
                   /\ \A i \in DOMAIN events : events'[i] = events[i]
       /\ BothRequested'
             => \A d \in DeviceIds : devices'[d].status = "AMBULANCE"]_vars

\* both caregivers requested while they observed FALL; both events are
\* appended
C19_Witness ==
    /\ BothRequested
    /\ Len(events) = 2
    /\ \A i \in DOMAIN events : events[i].type = "AMBULANCE_REQUESTED"
    /\ \A c \in Clients : obs[c] = "AMBULANCE" /\ countdown[c] < CountdownStart
    /\ \A d \in DeviceIds : StatusOf(d) = "AMBULANCE"

\* ---------------------------------------------------------------- C20
\* C20: the event log is append-only: no step removes an appended event or
\* changes any of its fields; the log only grows.
C20_EventLogAppendOnly ==
    [][/\ Len(events') >= Len(events)
       /\ \A i \in DOMAIN events : events'[i] = events[i]]_vars

\* a second event was appended behind an earlier one of another type
C20_Witness ==
    /\ Len(events) >= 2
    /\ events[1].type # events[2].type
    /\ events[1].timestamp < events[2].timestamp

\* ---------------------------------------------------------------- C21
\* C21: when a caregiver requests an ambulance and the wearer resolves, both
\* from an observed SOS, each write commits its own target whatever the
\* other client has written (the write committed last decides the status:
\* listeners and appends leave it alone), and each action issues its own
\* event, so both AMBULANCE_REQUESTED and EMERGENCY_RESOLVED are appended.
C21_LastWriterWins ==
    [][\A c \in Clients :
          /\ (obs[c] = "SOS" /\ handleRequestAmbulance(c, TRUE))
                => /\ devices'[deviceIdOf[c]].status = "AMBULANCE"
                   /\ Logged("AMBULANCE_REQUESTED")'
                         = Logged("AMBULANCE_REQUESTED") + 1
                   /\ Logged("EMERGENCY_RESOLVED")'
                         = Logged("EMERGENCY_RESOLVED")
          /\ (obs[c] = "SOS" /\ handleResolveEmergency(c, TRUE))
                => /\ devices'[deviceIdOf[c]].status = "SAFE"
                   /\ Logged("EMERGENCY_RESOLVED")'
                         = Logged("EMERGENCY_RESOLVED") + 1
                   /\ Logged("AMBULANCE_REQUESTED")'
                         = Logged("AMBULANCE_REQUESTED")
          /\ (DeviceSnapshot(c) \/ AppendEvent(c, TRUE))
                => /\ UNCHANGED devices
                   /\ \A t \in EventTypes : Logged(t)' = Logged(t)]_vars

\* the wearer resolved and the caregiver, still observing SOS, requested
\* afterwards: the request was committed last, and both events are appended
C21_Witness ==
    \E d \in DeviceIds :
        /\ StatusOf(d) = "AMBULANCE"
        /\ Len(events) = 2
        /\ events[1].type = "EMERGENCY_RESOLVED"
        /\ events[1].resolvedBy = "elderly"
        /\ events[2].type = "AMBULANCE_REQUESTED"
        /\ \A c \in Clients : countdown[c] = CountdownStart

\* ---------------------------------------------------------------- C22
\* C22: within one device's caregiver set every priority is a positive
\* integer and no two caregivers have the same priority.
C22_PrioritiesPositiveDistinct ==
    \A x \in caregivers :
        /\ x.priority \in Nat \ {0}
        /\ \A y \in caregivers :
              (y.deviceId = x.deviceId /\ y.id # x.id)
                  => y.priority # x.priority

\* ---------------------------------------------------------------- C23
\* C23: a device document comes into existence only by a pairing write, with
\* status SAFE and vitals {75, 98, 100}, and an existing device document
\* never ceases to exist.
C23_CreatedSafeNeverDeleted ==
    [][\A d \in DeviceIds :
          /\ (~Exists(d) /\ devices'[d] # Absent)
                => /\ devices'[d].status = "SAFE"
                   /\ devices'[d].vitals
                         = [heartRate |-> 75, spo2 |-> 98, battery |-> 100]
                   /\ \E c \in Clients :
                         deviceIdOf[c] = d /\ PairWrite(c, TRUE)
          /\ Exists(d) => devices'[d] # Absent]_vars

\* the device was created by a pairing and has since been written by the
\* hardware while both clients are paired with it
C23_Witness ==
    \E d \in DeviceIds :
        /\ Exists(d) /\ StatusOf(d) = "FALL"
        /\ devices[d].vitals.heartRate = FallHeartRate
        /\ \A c \in Clients : Subscribed(c, d)

\* ---------------------------------------------------------------- C28
\* C28: a pairing write to a device that exists leaves the device's status
\* and vitals as they are.
C28_PairingKeepsExistingDevice ==
    [][\A c \in Clients, ok \in BOOLEAN :
          (/\ pc[c] \in {"pair_absent", "pair_present"}
           /\ Exists(deviceIdOf[c])
           /\ PairWrite(c, ok))
              => /\ devices'[deviceIdOf[c]].status = StatusOf(deviceIdOf[c])
                 /\ devices'[deviceIdOf[c]].vitals
                       = devices[deviceIdOf[c]].vitals]_vars

\* ---------------------------------------------------------------- C24
\* C24: the history a client's events listener sets holds exactly the
\* delivered events of the client's device, each once, ordered by timestamp
\* descending, an unresolved timestamp counting as 0.
MillisOf(e) == IF e.timestamp = NullTime THEN 0 ELSE e.timestamp

IsHistoryOf(h, docs, d) ==
    /\ {h[i] : i \in DOMAIN h}
          = {docs[j] : j \in {k \in DOMAIN docs : docs[k].deviceId = d}}
    /\ \A i, j \in DOMAIN h : i # j => h[i] # h[j]
    /\ \A i, j \in DOMAIN h : i < j => MillisOf(h[i]) >= MillisOf(h[j])

C24_HistoryFilteredSortedDesc ==
    [][\A c \in Clients :
          EventsSnapshot(c)
              => IsHistoryOf(history'[c], eventDocs, deviceIdOf[c])]_vars

\* a history of two events, the unresolved one last, taken from a snapshot
\* that also holds an event of another device
C24_Witness ==
    \E c \in Clients :
        /\ Len(eventDocs) = 3
        /\ Len(history[c]) = 2
        /\ history[c][1].timestamp = 2
        /\ history[c][2].timestamp = NullTime
        /\ history[c][2].id < history[c][1].id

\* ---------------------------------------------------------------- C25
\* C25: when the status write of a manual SOS, an escalation, a cancel, an
\* ambulance request or a resolve is rejected, the step changes neither the
\* committed device nor the log and leaves no event to be appended; after a
\* rejected escalation the countdown is 0 and the timer does not run again.
RejectedWrite(c) ==
    \/ ManualSOS(c, FALSE)
    \/ Tick(c, FALSE)
    \/ handleCancelFall(c, FALSE)
    \/ handleRequestAmbulance(c, FALSE)
    \/ handleResolveEmergency(c, FALSE)

C25_FailedWriteNotRetried ==
    [][\A c \in Clients :
          /\ RejectedWrite(c) => UNCHANGED <<devices, events, pend>>
          /\ Tick(c, FALSE)
                => /\ countdown'[c] = 0
                   /\ obs'[c] = "FALL"
                   /\ ~(pc'[c] = "paired" /\ obs'[c] = "FALL"
                         /\ countdown'[c] > 0)]_vars

\* an escalation write was rejected: the client still observes the
\* committed FALL, its countdown is 0 and nothing was logged
C25_Witness ==
    \E c \in Clients :
        /\ pc[c] = "paired" /\ obs[c] = "FALL" /\ countdown[c] = 0
        /\ StatusOf(deviceIdOf[c]) = "FALL"
        /\ LoggedTotal = 0

\* ---------------------------------------------------------------- C26
\* C26: the escalation write of an expiring countdown is committed only
\* while the committed status is FALL (never over SAFE or AMBULANCE), and
\* no FALL_ESCALATED event is issued once a FALSE_ALARM has been.
C26_EscalationOnlyWhileFall ==
    [][\A c \in Clients :
          (pc[c] = "paired" /\ countdown[c] <= 1 /\ Tick(c, TRUE))
              => /\ StatusOf(deviceIdOf[c]) = "FALL"
                 /\ Logged("FALSE_ALARM") = 0]_vars

\* ---------------------------------------------------------------- C27
\* C27: an event is issued only in the step that commits its action's
\* status write (the status its type stands for), and the log grows only by
\* the append of an event issued that way: no event without its status
\* write.
TargetOf(t) ==
    CASE t = "MANUAL_SOS" -> "SOS"
      [] t = "FALL_ESCALATED" -> "SOS"
      [] t = "FALSE_ALARM" -> "SAFE"
      [] t = "AMBULANCE_REQUESTED" -> "AMBULANCE"
      [] t = "EMERGENCY_RESOLVED" -> "SAFE"

C27_EventOnlyAfterStatusWrite ==
    [][/\ \A c \in Clients :
             Len(pend'[c]) > Len(pend[c])
                => /\ pend'[c] = Append(pend[c], LastOf(pend'[c]))
                   /\ LastOf(pend'[c]).deviceId = deviceIdOf[c]
                   /\ devices'[deviceIdOf[c]].status
                         = TargetOf(LastOf(pend'[c]).type)
                   /\ devices'[deviceIdOf[c]].lastUpdate = DeviceTime
                   /\ UNCHANGED events
       /\ events' # events
             => \E c \in Clients :
                   /\ pend[c] # << >>
                   /\ pend'[c] = Tail(pend[c])
                   /\ Len(events') = Len(events) + 1
                   /\ LastOf(events').type = Head(pend[c]).type
                   /\ LastOf(events').deviceId = Head(pend[c]).deviceId
                   /\ UNCHANGED devices]_vars

\* the events of a manual SOS and of its resolve are appended, each after
\* its status write
C27_Witness ==
    /\ Len(events) = 2
    /\ events[1].type = "MANUAL_SOS"
    /\ events[2].type = "EMERGENCY_RESOLVED"
    /\ \A c \in Clients : pend[c] = << >>
    /\ \E d \in DeviceIds : Exists(d) /\ StatusOf(d) = "SAFE"

\* ---------------------------------------------------------------- C29
\* C29: on every client the countdown stays in 0..15, is 15 when the
\* overlay is mounted, does not increase while the overlay stays mounted,
\* and goes down only by one, in a tick taken while the client observes FALL
\* with a countdown above 0.
C29_CountdownInRange ==
    [][\A c \in Clients :
          /\ countdown[c] \in 0..CountdownStart
          /\ countdown'[c] \in 0..CountdownStart
          /\ (~OverlayMounted(obs[c]) /\ OverlayMounted(obs'[c]))
                => countdown'[c] = 15
          /\ (OverlayMounted(obs[c]) /\ OverlayMounted(obs'[c]))
                => countdown'[c] <= countdown[c]
          /\ countdown'[c] < countdown[c]
                => /\ obs[c] = "FALL" /\ countdown[c] > 0
                   /\ countdown'[c] = countdown[c] - 1
                   /\ \E ok \in BOOLEAN : Tick(c, ok)]_vars

\* a countdown half way down on an observed FALL
C29_Witness ==
    \E c \in Clients :
        /\ pc[c] = "paired" /\ obs[c] = "FALL"
        /\ countdown[c] = 7
====
